---- MODULE Spec2Model ----
(***************************************************************************)
(* Database-connection lifecycle of the campus recruitment API backend.    *)
(*                                                                         *)
(* Two entry files are modelled:                                           *)
(*   "index"  - src/unnamed/part_001: cachedDb, the ensureDbConnected      *)
(*              middleware and a connectDB that rethrows its failure;      *)
(*   "server" - src/server.js (second module of the file, lines 307-636):  *)
(*              no middleware, a connectDB that exits the process.         *)
(* Either file is run directly (main = TRUE: connectDB().then(listen), the *)
(* long-lived process) or imported by the platform (main = FALSE: the      *)
(* per-request deployment, the app is invoked for every request).          *)
(*                                                                         *)
(* One step of the model is one turn of the Node event loop: a callback    *)
(* together with the promise reactions (microtasks) it schedules, which    *)
(* run before any further I/O event is handled.                            *)
(*                                                                         *)
(* mongoose is the environment.  mongoose.connect sets readyState to 2     *)
(* synchronously; its resolution sets readyState to 1 and emits            *)
(* 'connected', its rejection sets readyState to 0 and emits 'error' to    *)
(* the registered listeners.  A live connection may be lost                *)
(* ('disconnected', readyState 0) and regained by the driver ('connected', *)
(* readyState 1) until a new mongoose.connect replaces the client.         *)
(***************************************************************************)
EXTENDS Integers, Sequences, FiniteSets, TLC

MaxReq == 3

MaxTrace == 4

MaxDiag == 1

Req == 1..MaxReq

Files == {"index", "server"}

Routes == {"api", "health", "test-db"}

ErrorCodes == {"ENOTFOUND", "ECONNREFUSED", "MONGODB_ERROR", "undefined"}

ErrorNames == {"MongoServerError", "MongooseServerSelectionError", "Error"}

Errors == [code : ErrorCodes, name : ErrorNames]

NoError == [code |-> "undefined", name |-> "none"]

Classes == {"DNSResolution", "ConnectionRefused", "AuthenticationFailure",
            "Timeout", "Unknown"}

ServerSelectionTimeoutMS == 5000

SocketTimeoutMS == 45000

ConnectTimeoutMS == 10000

\* no timeout is given: 0 stands for an absent value
NoTimeouts == [serverSelection |-> 0, socket |-> 0, connect |-> 0]

\* what the environment may say about timeouts: nothing, or three values
EnvTimeouts == {NoTimeouts,
                [serverSelection |-> 1000, socket |-> 2000, connect |-> 3000]}

\* a connection string: scheme, credentials and host ("" when unset)
Uris == [srv : BOOLEAN, user : {"app"}, password : {"pw1", "pw2"},
         host : {"db1", "db2"}]

NoUri == [srv |-> FALSE, user |-> "", password |-> "", host |-> ""]

\* values of JWT_SECRET, as sequences of characters (<<>> when unset)
JwtSecrets == {<<"a", "b">>, <<"a", "c">>, <<"a", "b", "c">>}

\* the secret part of process.env
Envs == [MONGODB_URI : Uris \cup {NoUri}, JWT_SECRET : JwtSecrets \cup {<<>>}]

NoSecrets == [MONGODB_URI |-> NoUri, JWT_SECRET |-> <<>>]

\* what logs: connectDB, the environment check, the database debug script
Scripts == {"connectDB", "envCheck", "debugDb"}

NotRun == [s \in Scripts |-> <<<<>>, <<>>>>]

VARIABLES
    file,         \* which entry file is deployed
    main,         \* require.main === module (and NODE_ENV is not 'test')
    alive,        \* the process has not called process.exit
    listening,    \* requests are delivered to the app
    startup,      \* the startup connectDB() call: "idle", "pending", "done", "none"
    env,          \* timeout values present in the process environment
    diag,         \* how many /api/test-db requests the operator makes
    readyState,   \* mongoose.connection.readyState
    cachedDb,     \* the module variable cachedDb: "null" or "conn"
    dropped,      \* the live client lost its connection and may regain it
    everDropped,  \* history: the connection was lost at least once
    attempts,     \* history: number of mongoose.connect calls made
    inflight,     \* history: mongoose.connect calls not yet settled
    outcome,      \* history: "none", or how the latest attempt stands
    everSucceeded,\* history: some attempt succeeded
    everFailed,   \* history: some attempt failed
    downCalls,    \* history: ensureDbConnected calls that found readyState 0
    lastError,    \* the error the latest attempt failed with
    lastClass,    \* the diagnostic branch connectDB logged for lastError
    opts,         \* the timeout options of the latest mongoose.connect call
    trace,        \* lifecycle events logged since the latest attempt started
    pc,           \* position of every request
    route,        \* path of every request that arrived
    nextCalls,    \* number of next() calls ensureDbConnected made for the request
    sent,         \* number of responses ensureDbConnected sent for the request
    resp,         \* the response the request received
    onConnected,  \* requests whose 'connected' listener is on the connection
    onError,      \* requests whose 'error' listener is on the connection
    seen,         \* what the /api/test-db handler read when it was entered
    secrets,      \* the secret settings of two runs that are compared
    printed       \* what connectDB and the two scripts logged in either run

connVars == <<readyState, cachedDb, dropped, everDropped, attempts, inflight,
              outcome, everSucceeded, everFailed, downCalls, lastError,
              lastClass, opts, trace>>

procVars == <<file, main, alive, listening, startup, env, diag>>

reqVars == <<pc, route, nextCalls, sent, resp, onConnected, onError, seen>>

scriptVars == <<secrets, printed>>

programVars == <<procVars, connVars, reqVars>>

vars == <<file, main, alive, listening, startup, env, diag, readyState, cachedDb,
          dropped, everDropped, attempts, inflight, outcome, everSucceeded,
          everFailed, downCalls, lastError, lastClass, opts, trace, pc, route,
          nextCalls, sent, resp, onConnected, onError, seen, secrets,
          printed>>

NoResp == [status |-> 0, body |-> "none", dbConnected |-> "absent"]

\* the /api/test-db handler has not been entered
NotSeen == [dbStatus |-> -1, db |-> FALSE]

ProgramInit ==
    /\ file \in Files
    /\ main \in BOOLEAN
    /\ alive = TRUE
    /\ listening = ~main
    /\ startup = IF main THEN "idle" ELSE "none"
    /\ env \in EnvTimeouts
    /\ readyState = 0
    /\ cachedDb = "null"
    /\ dropped = FALSE
    /\ everDropped = FALSE
    /\ attempts = 0
    /\ inflight = 0
    /\ outcome = "none"
    /\ everSucceeded = FALSE
    /\ everFailed = FALSE
    /\ downCalls = 0
    /\ lastError = NoError
    /\ lastClass = "none"
    /\ opts = NoTimeouts
    /\ trace = <<>>
    /\ pc = [r \in Req |-> "new"]
    /\ route = [r \in Req |-> "none"]
    /\ nextCalls = [r \in Req |-> 0]
    /\ sent = [r \in Req |-> 0]
    /\ resp = [r \in Req |-> NoResp]
    /\ onConnected = {}
    /\ onError = {}
    /\ seen = [r \in Req |-> NotSeen]

\* the server program as it is loaded; the scripts are not run and nobody
\* calls the diagnostic endpoint
Init ==
    /\ ProgramInit
    /\ diag = 0
    /\ secrets = <<NoSecrets, NoSecrets>>
    /\ printed = NotRun

\* the server program with an operator who calls /api/test-db; the
\* environment sets no timeout
DiagInit ==
    /\ ProgramInit /\ env = NoTimeouts
    /\ diag = MaxDiag
    /\ secrets = <<NoSecrets, NoSecrets>>
    /\ printed = NotRun

(***************************************************************************)
(* connectDB: the diagnostic branch taken for a failed attempt.            *)
(***************************************************************************)
classifyIndex(e) ==
    IF e.code = "ENOTFOUND" THEN "DNSResolution"
    ELSE IF e.code = "ECONNREFUSED" THEN "ConnectionRefused"
    ELSE IF e.name = "MongoServerError" THEN "AuthenticationFailure"
    ELSE IF e.name = "MongooseServerSelectionError" THEN "Timeout"
    ELSE "Unknown"

classifyServer(e) ==
    IF e.code = "ENOTFOUND" THEN "DNSResolution"
    ELSE IF e.code = "ECONNREFUSED" THEN "ConnectionRefused"
    ELSE IF e.code = "MONGODB_ERROR" THEN "AuthenticationFailure"
    ELSE "Unknown"

classify(e) == IF file = "index" THEN classifyIndex(e) ELSE classifyServer(e)

ConnectOptions_FromEnv ==
    [serverSelection |-> IF env.serverSelection # 0 THEN env.serverSelection
                         ELSE ServerSelectionTimeoutMS,
     socket |-> IF env.socket # 0 THEN env.socket ELSE SocketTimeoutMS,
     connect |-> IF env.connect # 0 THEN env.connect ELSE ConnectTimeoutMS]

\* the timeout options connectDB hands to mongoose.connect
ConnectOptions ==
    IF file = "index"
    THEN [serverSelection |-> ServerSelectionTimeoutMS,
          socket |-> SocketTimeoutMS,
          connect |-> ConnectTimeoutMS]
    ELSE NoTimeouts

StartLog_Silent == <<>>

\* connectDB logs that it starts to connect
StartLog == <<"connecting">>

\* connectDB logs the successful connection
SuccessLog == <<"connected">>

\* connectDB logs the failed connection
FailureLog == <<"error">>

\* the listeners server.js puts on the connection after its connect resolved
\* log the events the connection emits afterwards
ListenerLog(ev) == IF file = "server" /\ everSucceeded THEN <<ev>> ELSE <<>>

mongooseConnect_DropsCache ==
    /\ readyState' = 2
    /\ attempts' = attempts + 1
    /\ inflight' = inflight + 1
    /\ outcome' = "pending"
    /\ dropped' = FALSE
    /\ lastError' = NoError
    /\ lastClass' = "none"
    /\ opts' = ConnectOptions
    /\ trace' = StartLog
    /\ cachedDb' = "null"
    /\ UNCHANGED <<everDropped, everSucceeded, everFailed>>

(***************************************************************************)
(* mongoose.connect(uri, options): the connection enters state 2 before    *)
(* the call returns its promise.                                           *)
(***************************************************************************)
mongooseConnect ==
    /\ readyState' = 2
    /\ attempts' = attempts + 1
    /\ inflight' = inflight + 1
    /\ outcome' = "pending"
    /\ dropped' = FALSE
    /\ lastError' = NoError
    /\ lastClass' = "none"
    /\ opts' = ConnectOptions
    /\ trace' = StartLog
    /\ UNCHANGED <<cachedDb, everDropped, everSucceeded, everFailed>>

CachedPath_NoStateCheck == cachedDb # "null"

\* connectDB returns the cached connection without connecting
CachedPath == cachedDb # "null" /\ readyState = 1

Path_NoWait ==
    IF readyState = 1 THEN "fast"
    ELSE IF CachedPath THEN "cached"
    ELSE "connect"

Path_NoFast ==
    IF readyState = 2 THEN "wait"
    ELSE "connect"

\* the branch ensureDbConnected (and the connectDB it calls) takes
Path ==
    IF readyState = 1 THEN "fast"
    ELSE IF readyState = 2 THEN "wait"
    ELSE IF CachedPath THEN "cached"
    ELSE "connect"

WaitListeners_OnlyConnected == {"connected"}

\* the events a waiting request listens to
WaitListeners == {"connected", "error"}

Resumed_EveryListener(ev) ==
    IF ev = "connected" THEN onConnected ELSE onError

\* the waiting requests an emitted event resumes
Resumed(ev) ==
    {r \in Req : pc[r] = "waiting"
                  /\ r \in (IF ev = "connected" THEN onConnected ELSE onError)}

\* the requests awaiting their own connectDB() call
Initiators == {r \in Req : pc[r] = "connecting"}

DbFailure_Leaky == [status |-> 500, body |-> lastError'.code,
                    dbConnected |-> "absent"]

\* the failure response of ensureDbConnected
DbFailure == [status |-> 500, body |-> "Failed to connect to database",
              dbConnected |-> "absent"]

TooMany == [status |-> 429, body |-> "Too many requests",
            dbConnected |-> "absent"]

(***************************************************************************)
(* A request arrives and passes the rate limiters, or is rejected by one.  *)
(* Requests are numbered in their order of arrival.                        *)
(***************************************************************************)
Limiter(r, rt, pass) ==
    /\ alive /\ listening
    /\ pc[r] = "new"
    /\ \A q \in Req : q < r => pc[q] # "new"
    /\ rt = "test-db" =>
           Cardinality({q \in Req : route[q] = "test-db"}) < diag
    /\ route' = [route EXCEPT ![r] = rt]
    /\ pc' = [pc EXCEPT ![r] = IF pass THEN "passed" ELSE "limited"]
    /\ resp' = [resp EXCEPT ![r] = IF pass THEN @ ELSE TooMany]
    /\ UNCHANGED scriptVars
    /\ UNCHANGED <<procVars, connVars, nextCalls, sent, onConnected, onError,
                   seen>>

\* mongoose.connection.db exists once a connect has succeeded
HasDb == everSucceeded

\* next() runs the route of the request in the same turn: the /api/test-db
\* handler reads readyState and connection.db before its first await
Entered(S) ==
    [r \in Req |-> IF r \in S /\ route[r] = "test-db"
                   THEN [dbStatus |-> readyState', db |-> HasDb']
                   ELSE seen[r]]

BehindLimiters_Not(r) == pc[r] \in {"passed", "limited"}

\* the requests the middleware chain hands on to what is mounted after the
\* limiters: a limiter that rejects answers 429 and does not call next()
BehindLimiters(r) == pc[r] = "passed"

(***************************************************************************)
(* ensureDbConnected, up to its first await.                               *)
(***************************************************************************)
ensureDbConnected(r) ==
    /\ alive
    /\ file = "index"
    /\ BehindLimiters(r)
    /\ CASE Path = "fast" ->
              /\ pc' = [pc EXCEPT ![r] = "handler"]
              /\ nextCalls' = [nextCalls EXCEPT ![r] = @ + 1]
              /\ UNCHANGED <<connVars, onConnected, onError>>
              /\ seen' = Entered({r})
         [] Path = "wait" ->
              /\ pc' = [pc EXCEPT ![r] = "waiting"]
              /\ onConnected' = IF "connected" \in WaitListeners
                                THEN onConnected \cup {r} ELSE onConnected
              /\ onError' = IF "error" \in WaitListeners
                            THEN onError \cup {r} ELSE onError
              /\ UNCHANGED <<connVars, nextCalls, seen>>
         [] Path = "cached" ->
              /\ pc' = [pc EXCEPT ![r] = "handler"]
              /\ nextCalls' = [nextCalls EXCEPT ![r] = @ + 1]
              /\ downCalls' = downCalls + 1
              /\ UNCHANGED <<readyState, cachedDb, dropped, everDropped,
                             attempts, inflight, outcome, everSucceeded,
                             everFailed, lastError, lastClass, opts, trace,
                             onConnected, onError>>
              /\ seen' = Entered({r})
         [] Path = "connect" ->
              /\ mongooseConnect
              /\ downCalls' = downCalls + 1
              /\ pc' = [pc EXCEPT ![r] = "connecting"]
              /\ UNCHANGED <<nextCalls, onConnected, onError, seen>>
    /\ UNCHANGED scriptVars
    /\ UNCHANGED <<procVars, route, sent, resp>>

(***************************************************************************)
(* The file is run directly: connectDB() is called while the module loads. *)
(***************************************************************************)
LocalStartup ==
    /\ alive
    /\ startup = "idle"
    /\ IF file = "index" /\ CachedPath
       THEN /\ startup' = "done"
            /\ listening' = TRUE
            /\ UNCHANGED connVars
       ELSE /\ startup' = "pending"
            /\ mongooseConnect
            /\ UNCHANGED <<listening, downCalls>>
    /\ UNCHANGED scriptVars
    /\ UNCHANGED <<file, main, alive, env, diag, reqVars>>

CacheOnSuccess_Forget == cachedDb

\* the cache after a successful attempt
CacheOnSuccess == IF file = "index" THEN "conn" ELSE cachedDb

CacheOnFailure_Keep == cachedDb

\* the cache after a failed attempt
CacheOnFailure == IF file = "index" THEN "null" ELSE cachedDb

ExitsOnFailure_Always == TRUE

\* a failed attempt ends the process
ExitsOnFailure == IF file = "server" THEN TRUE ELSE startup = "pending"

ListensAfter_Any(ok) == startup = "pending"

\* the startup call's continuation starts the server
ListensAfter(ok) == ok /\ startup = "pending"

(***************************************************************************)
(* The pending mongoose.connect resolves.                                  *)
(***************************************************************************)
ConnectSucceeded ==
    /\ alive
    /\ inflight > 0 /\ readyState = 2
    /\ readyState' = 1
    /\ inflight' = inflight - 1
    /\ outcome' = "ok"
    /\ everSucceeded' = TRUE
    /\ cachedDb' = CacheOnSuccess
    /\ startup' = IF startup = "pending" THEN "done" ELSE startup
    /\ listening' = (listening \/ ListensAfter(TRUE))
    /\ LET go == Resumed("connected") \cup Initiators
       IN /\ pc' = [r \in Req |-> IF r \in go THEN "handler" ELSE pc[r]]
          /\ nextCalls' = [r \in Req |-> IF r \in go THEN nextCalls[r] + 1
                                          ELSE nextCalls[r]]
          /\ seen' = Entered(go)
    /\ trace' = trace \o SuccessLog
    /\ UNCHANGED scriptVars
    /\ UNCHANGED <<file, main, alive, env, diag, dropped, everDropped, attempts,
                   everFailed, downCalls, lastError, lastClass, opts, route,
                   sent, resp, onConnected, onError>>

FailedAttempt_Retry ==
    [readyState |-> 2, attempts |-> attempts + 1, inflight |-> inflight,
     outcome |-> "pending"]

\* the connection after a failed attempt: connectDB's catch block logs,
\* clears the cache and rethrows; it does not connect again
FailedAttempt ==
    [readyState |-> 0, attempts |-> attempts, inflight |-> inflight - 1,
     outcome |-> "fail"]

WaitersRejected_None == {}

\* the waiting requests a failed attempt rejects
WaitersRejected == Resumed("error")

(***************************************************************************)
(* The pending mongoose.connect rejects with error e.                      *)
(***************************************************************************)
ConnectFailed(e) ==
    /\ alive
    /\ inflight > 0 /\ readyState = 2
    /\ readyState' = FailedAttempt.readyState
    /\ attempts' = FailedAttempt.attempts
    /\ inflight' = FailedAttempt.inflight
    /\ outcome' = FailedAttempt.outcome
    /\ everFailed' = TRUE
    /\ lastError' = e
    /\ lastClass' = classify(e)
    /\ cachedDb' = CacheOnFailure
    /\ alive' = ~ExitsOnFailure
    /\ startup' = IF startup = "pending" THEN "done" ELSE startup
    /\ listening' = (listening \/ ListensAfter(FALSE))
    /\ LET stop == WaitersRejected \cup Initiators
       IN /\ pc' = [r \in Req |-> IF r \in stop THEN "failed" ELSE pc[r]]
          /\ sent' = [r \in Req |-> IF r \in stop THEN sent[r] + 1
                                    ELSE sent[r]]
          /\ resp' = [r \in Req |-> IF r \in stop THEN DbFailure ELSE resp[r]]
    /\ trace' = trace \o FailureLog
    /\ UNCHANGED scriptVars
    /\ UNCHANGED <<file, main, env, diag, dropped, everDropped, everSucceeded,
                   downCalls, opts, route, nextCalls, onConnected, onError,
                   seen>>

(***************************************************************************)
(* The live connection is lost: mongoose emits 'disconnected'.             *)
(***************************************************************************)
Drop ==
    /\ alive
    /\ readyState = 1
    /\ Len(trace \o ListenerLog("disconnected")) <= MaxTrace
    /\ readyState' = 0
    /\ dropped' = TRUE
    /\ everDropped' = TRUE
    /\ trace' = trace \o ListenerLog("disconnected")
    /\ UNCHANGED scriptVars
    /\ UNCHANGED <<procVars, cachedDb, attempts, inflight, outcome,
                   everSucceeded, everFailed, downCalls, lastError, lastClass,
                   opts, reqVars>>

(***************************************************************************)
(* The driver regains the connection: mongoose emits 'connected'.          *)
(***************************************************************************)
Reconnect ==
    /\ alive
    /\ readyState = 0 /\ dropped
    /\ Len(trace \o ListenerLog("connected")) <= MaxTrace
    /\ readyState' = 1
    /\ dropped' = FALSE
    /\ trace' = trace \o ListenerLog("connected")
    /\ LET go == Resumed("connected")
       IN /\ pc' = [r \in Req |-> IF r \in go THEN "handler" ELSE pc[r]]
          /\ nextCalls' = [r \in Req |-> IF r \in go THEN nextCalls[r] + 1
                                          ELSE nextCalls[r]]
    /\ UNCHANGED scriptVars
    /\ UNCHANGED <<procVars, cachedDb, everDropped, attempts, inflight,
                   outcome, everSucceeded, everFailed, downCalls, lastError,
                   lastClass, opts, route, sent, resp, onConnected, onError>>
    /\ seen' = Entered(Resumed("connected"))

\* GET /api/health of the deployed file.  server.js reports
\* database.connected from the readyState it reads on entry; part_001
\* answers status, message and timestamp only.
HealthReport ==
    [status |-> 200, body |-> "OK",
     dbConnected |-> IF file = "server"
                     THEN (IF readyState = 1 THEN "true" ELSE "false")
                     ELSE "absent"]

RouteReply == [status |-> 200, body |-> "route", dbConnected |-> "absent"]

AtRoutes_NoGate(r) == pc[r] \in {"handler", "passed"}

\* the request has reached the routes: behind ensureDbConnected where the
\* file mounts it, directly after the limiters where it does not
AtRoutes(r) == pc[r] = "handler" \/ (file = "server" /\ pc[r] = "passed")

\* /api/test-db lists the collections: database.status is computed from the
\* readyState read on entry
TestDbListed(st) ==
    [status |-> 200, body |-> "collections",
     dbConnected |-> IF st = 1 THEN "true" ELSE "false"]

\* /api/test-db of part_001 found no connection.db: success false, status 200
TestDbNull ==
    [status |-> 200, body |-> "Database connection object is null",
     dbConnected |-> "absent"]

\* /api/test-db caught an error: success false, status 500
TestDbError == [status |-> 500, body |-> "error", dbConnected |-> "absent"]

\* listCollections() answers while the connection is up and throws otherwise
ListingSucceeds == readyState = 1

\* the answer of /api/test-db once listCollections() has settled
TestDbReply(r) ==
    IF file = "index" /\ ~seen[r].db THEN TestDbNull
    ELSE IF ListingSucceeds THEN TestDbListed(seen[r].dbStatus)
    ELSE TestDbError

(***************************************************************************)
(* GET /api/test-db.  In server.js the request comes straight from the     *)
(* limiters: the handler reads readyState, and connection.db being         *)
(* undefined throws inside the try block; otherwise listCollections() is   *)
(* awaited.  In part_001 the handler was entered when next() was called.   *)
(* The later step is the settlement of listCollections().                  *)
(***************************************************************************)
TestDb(r) ==
    IF pc[r] = "passed"
    THEN /\ seen' = [seen EXCEPT ![r] = [dbStatus |-> readyState,
                                         db |-> HasDb]]
         /\ IF HasDb
            THEN /\ pc' = [pc EXCEPT ![r] = "handler"]
                 /\ UNCHANGED resp
            ELSE /\ pc' = [pc EXCEPT ![r] = "done"]
                 /\ resp' = [resp EXCEPT ![r] = TestDbError]
    ELSE /\ pc' = [pc EXCEPT ![r] = "done"]
         /\ resp' = [resp EXCEPT ![r] = TestDbReply(r)]
         /\ UNCHANGED seen

(***************************************************************************)
(* The route matching the request answers it.                              *)
(***************************************************************************)
Handler(r) ==
    /\ alive
    /\ AtRoutes(r)
    /\ IF route[r] = "test-db"
       THEN TestDb(r)
       ELSE /\ pc' = [pc EXCEPT ![r] = "done"]
            /\ resp' = [resp EXCEPT ![r] = IF route[r] = "health"
                                           THEN HealthReport ELSE RouteReply]
            /\ UNCHANGED seen
    /\ UNCHANGED scriptVars
    /\ UNCHANGED <<procVars, connVars, route, nextCalls, sent, onConnected,
                   onError>>

Next ==
    \/ \E r \in Req, rt \in Routes, pass \in BOOLEAN : Limiter(r, rt, pass)
    \/ \E r \in Req : ensureDbConnected(r)
    \/ LocalStartup
    \/ ConnectSucceeded
    \/ \E e \in Errors : ConnectFailed(e)
    \/ Drop
    \/ Reconnect
    \/ \E r \in Req : Handler(r)

Spec == Init /\ [][Next]_vars

\* the same program, with requests to the diagnostic endpoint
DiagSpec == DiagInit /\ [][Next]_vars

\* the pending mongoose.connect settles: it resolves, or rejects with an error
Settle == ConnectSucceeded \/ \E e \in Errors : ConnectFailed(e)

\* no step reads the timeout values of the environment: progress is studied
\* with none set
FairInit == Init /\ env = NoTimeouts

\* the driver settles every connect it was asked for: each attempt is bounded
\* by the driver's server selection and connect timeouts
FairSpec == FairInit /\ [][Next]_vars /\ WF_vars(Settle)

\* process.env.MONGODB_URI is truthy: the variable is set and not empty
UriSet(u) == u # NoUri

\* process.env.JWT_SECRET is truthy: the variable is set and not empty
SecretSet(v) == Len(v) > 0

\* the connection string as text
UriText(u) ==
    <<IF u.srv THEN "mongodb+srv://" ELSE "mongodb://", u.user, ":",
      u.password, "@", u.host, "/">>

\* connectDB's lines about the environment
connectDBEnvLog(e) ==
    <<"MONGODB_URI:",
      IF UriSet(e.MONGODB_URI) THEN "Set (hidden for security)" ELSE "NOT SET",
      "Using URI:",
      IF UriSet(e.MONGODB_URI) THEN "MONGODB_URI from env"
      ELSE "Fallback localhost">>

\* the environment check's lines for the required variables
requiredVarsCheck(e) ==
    (IF ~UriSet(e.MONGODB_URI) THEN <<"MONGODB_URI: NOT SET">>
     ELSE IF e.MONGODB_URI.srv
          THEN <<"MONGODB_URI: Set (", "mongodb+srv://", e.MONGODB_URI.user,
                 "@", e.MONGODB_URI.host, "/...)">>
          ELSE <<"MONGODB_URI: Set (">> \o UriText(e.MONGODB_URI) \o <<")">>)
    \o
    (IF ~SecretSet(e.JWT_SECRET) THEN <<"JWT_SECRET: NOT SET">>
     ELSE <<"JWT_SECRET: Set (", ToString(Len(e.JWT_SECRET)),
            " characters)">>)

\* the debug script's first lines
startupLog(e) ==
    <<"MongoDB URI:",
      IF UriSet(e.MONGODB_URI) THEN "Set (hidden for security)"
      ELSE "Using default localhost">>

\* the debug script's lines for the required variables
testEnvironmentVariables(e) ==
    (IF ~UriSet(e.MONGODB_URI) THEN <<"MONGODB_URI: Not set">>
     ELSE <<"MONGODB_URI: Set (">> \o UriText(e.MONGODB_URI) \o <<")">>)
    \o
    (IF ~SecretSet(e.JWT_SECRET) THEN <<"JWT_SECRET: Not set">>
     ELSE <<"JWT_SECRET: Set (", "hidden", ")">>)

\* what a run of s logs about the secrets of environment e
Logged(s, e) ==
    CASE s = "connectDB" -> connectDBEnvLog(e)
      [] s = "envCheck" -> requiredVarsCheck(e)
      [] s = "debugDb" -> startupLog(e) \o testEnvironmentVariables(e)

\* s runs in both environments
Run(s) ==
    /\ printed[s] = <<<<>>, <<>>>>
    /\ printed' = [printed EXCEPT
                      ![s] = <<Logged(s, secrets[1]), Logged(s, secrets[2])>>]
    /\ UNCHANGED <<programVars, secrets>>

\* two environments that differ at most in the values of the secrets: each
\* secret is set in both or in neither
SecretPairs ==
    {p \in Envs \X Envs :
        /\ UriSet(p[1].MONGODB_URI) = UriSet(p[2].MONGODB_URI)
        /\ SecretSet(p[1].JWT_SECRET) = SecretSet(p[2].JWT_SECRET)}

LogInit ==
    /\ ProgramInit /\ file = "index" /\ ~main /\ env = NoTimeouts
    /\ diag = 0
    /\ secrets \in SecretPairs
    /\ printed = NotRun

LogNext == \E s \in Scripts : Run(s)

\* connectDB's logging and the two scripts, run on a pair of environments
LogSpec == LogInit /\ [][LogNext]_vars

TypeOK ==
    /\ file \in Files /\ main \in BOOLEAN /\ alive \in BOOLEAN
    /\ listening \in BOOLEAN
    /\ startup \in {"idle", "pending", "done", "none"}
    /\ readyState \in {0, 1, 2}
    /\ cachedDb \in {"null", "conn"}
    /\ dropped \in BOOLEAN /\ everDropped \in BOOLEAN
    /\ attempts \in Nat /\ inflight \in Nat /\ downCalls \in Nat
    /\ outcome \in {"none", "pending", "ok", "fail"}
    /\ everSucceeded \in BOOLEAN /\ everFailed \in BOOLEAN
    /\ lastError \in Errors \cup {NoError}
    /\ lastClass \in Classes \cup {"none"}
    /\ secrets \in Envs \X Envs
    /\ printed \in [Scripts -> Seq(STRING) \X Seq(STRING)]
    /\ env \in EnvTimeouts
    /\ diag \in 0..MaxDiag
    /\ opts \in [serverSelection : Nat, socket : Nat, connect : Nat]
    /\ trace \in Seq({"connecting", "connected", "error", "disconnected"})
    /\ Len(trace) <= MaxTrace
    /\ pc \in [Req -> {"new", "limited", "passed", "waiting", "connecting",
                       "handler", "failed", "done"}]
    /\ route \in [Req -> Routes \cup {"none"}]
    /\ nextCalls \in [Req -> Nat]
    /\ sent \in [Req -> Nat]
    /\ onConnected \subseteq Req /\ onError \subseteq Req
    /\ seen \in [Req -> [dbStatus : -1..2, db : BOOLEAN]]

(***************************************************************************)
(* Properties.                                                             *)
(***************************************************************************)

\* a request has been given its outcome by ensureDbConnected in this step
Settled(r) == pc[r] \in {"waiting", "connecting"} /\ pc'[r] # pc[r]

\* ensureDbConnected runs for request r in this step
Called(r) == file = "index" /\ pc[r] = "passed" /\ pc'[r] # "passed"

\* C1: at most one connection attempt (a mongoose.connect call that has not
\* settled) is in flight at any time, and no step taken while the state is
\* Connecting starts another attempt.
C1_SingleAttemptInFlight ==
    /\ [](inflight <= 1)
    /\ [][readyState = 2 => attempts' = attempts]_vars

C1_Witness ==
    /\ inflight = 1 /\ readyState = 2
    /\ \E r \in Req : pc[r] = "connecting"
    /\ \E r \in Req : pc[r] = "waiting"

\* C2: every request that arrived while the state was Connecting is settled
\* in the step that settles the attempt, with the attempt's outcome: all of
\* them and the initiating request go on to their handler when it succeeds,
\* all of them receive the database failure response when it fails.
C2_WaitersShareOutcome ==
    /\ [](readyState # 2 =>
            \A r \in Req : pc[r] \notin {"waiting", "connecting"})
    /\ [][\A r \in Req : Settled(r) =>
            \/ outcome' = "ok" /\ pc'[r] = "handler" /\ resp'[r] = resp[r]
            \/ outcome' = "fail" /\ pc'[r] = "failed"
                 /\ resp'[r] = DbFailure]_vars

C2_Witness ==
    /\ outcome = "fail"
    /\ \E r1, r2, r3 \in Req :
         /\ r1 # r2 /\ {r1, r2} \subseteq onError /\ r3 \notin onError
         /\ pc[r1] = "failed" /\ pc[r2] = "failed" /\ pc[r3] = "failed"
         /\ resp[r1] = resp[r3] /\ resp[r2] = resp[r3]

\* C3: a call made while the state is Connected passes the request on at
\* once and leaves the attempt counter, the state and the cached handle as
\* they were; with a database that neither fails nor drops, any number of
\* calls make one attempt in total.
C3_ConnectedFastPath ==
    /\ [][\A r \in Req : (Called(r) /\ readyState = 1) =>
            /\ pc'[r] = "handler"
            /\ attempts' = attempts /\ inflight' = inflight
            /\ readyState' = readyState /\ cachedDb' = cachedDb]_vars
    /\ []((file = "index" /\ ~everFailed /\ ~everDropped) => attempts <= 1)

C3_Witness ==
    /\ file = "index" /\ ~main
    /\ attempts = 1 /\ ~everFailed /\ ~everDropped /\ onConnected = {}
    /\ \E r1, r2 \in Req : r1 # r2 /\ pc[r1] = "done" /\ pc[r2] = "done"

\* C4: after an attempt has failed the cached handle is empty and the state
\* is Failed (readyState 0, neither Connecting nor Connected), and the next
\* call of ensureDbConnected starts a new attempt: the counter grows by one.
C4_FailureClearsAndNextCallRetries ==
    /\ []((file = "index" /\ outcome = "fail") =>
            (cachedDb = "null" /\ readyState = 0))
    /\ [][\A r \in Req : (Called(r) /\ outcome = "fail") =>
            (attempts' = attempts + 1 /\ readyState' = 2)]_vars

C4_Witness ==
    /\ file = "index" /\ everFailed /\ everSucceeded
    /\ attempts = 3 /\ outcome = "pending" /\ cachedDb = "null"

\* C5: attempts are started by calls only: the number of attempts never
\* exceeds the number of calls that found the state Disconnected or Failed
\* (plus the startup call of a directly run file), a step starts at most one
\* attempt, and the step in which an attempt fails starts none.
C5_NoInternalRetry ==
    /\ [](attempts <= downCalls + (IF startup \in {"pending", "done"}
                                   THEN 1 ELSE 0))
    /\ [][attempts' <= attempts + 1]_vars
    /\ [][attempts' # attempts =>
            \/ \E r \in Req : Called(r)
            \/ startup = "idle" /\ startup' = "pending"]_vars
    /\ [][everFailed' # everFailed => readyState' # 2]_vars

C5_Witness ==
    /\ outcome = "fail" /\ readyState = 0
    /\ attempts = 2 /\ downCalls = 2

\* C6: when the app is imported by the platform (per-request deployment) a
\* failed attempt answers the requests of that attempt with status 500 and
\* touches no other response; the process stays alive, and a request that
\* arrives after the failure can still call ensureDbConnected.
C6_PerRequestFailureIsNotFatal ==
    /\ [](~main => alive)
    /\ [][(~main /\ outcome = "pending" /\ outcome' = "fail") =>
            \A r \in Req :
               /\ r \in Initiators => resp'[r].status = 500
               /\ resp'[r] # resp[r] =>
                    pc[r] \in {"waiting", "connecting"}]_vars
    /\ []((~main /\ file = "index" /\ outcome = "fail") =>
            \A r \in Req : pc[r] = "passed" => ENABLED ensureDbConnected(r))

C6_Witness ==
    /\ ~main /\ alive /\ file = "index"
    /\ everFailed /\ outcome = "ok" /\ attempts = 2
    /\ \E r \in Req : pc[r] = "failed" /\ resp[r].status = 500

C8_HandlerOnlyAfterConnected ==
    /\ [][\A r \in Req :
            (file = "index" /\ pc[r] # "handler" /\ pc'[r] = "handler")
               => (readyState' = 1 /\ nextCalls'[r] = nextCalls[r] + 1)]_vars
    /\ [](file = "index" =>
            \A r \in Req :
               /\ pc[r] \in {"handler", "done"} =>
                    (nextCalls[r] = 1 /\ sent[r] = 0)
               /\ pc[r] = "failed" => (nextCalls[r] = 0 /\ sent[r] = 1))

C8_Witness ==
    /\ file = "index"
    /\ \E r \in Req : r \in onConnected /\ pc[r] = "done"
    /\ \E r \in Req : pc[r] = "failed"

\* the health endpoint answers request r in this step
HealthAnswered(r) ==
    route[r] = "health" /\ resp'[r] # resp[r] /\ resp'[r].status # 429

\* C9: every answer to a health request reports dbConnected = false while no
\* attempt has succeeded and dbConnected = true once one has.
C9_HealthReportsDbConnected ==
    [][\A r \in Req : HealthAnswered(r) =>
         resp'[r].dbConnected = (IF everSucceeded THEN "true" ELSE "false")]_vars

\* the class the claim gives an error
ClaimedClass(e) ==
    IF e.code = "ENOTFOUND" THEN "DNSResolution"
    ELSE IF e.code = "ECONNREFUSED" THEN "ConnectionRefused"
    ELSE IF e.name = "MongoServerError" THEN "AuthenticationFailure"
    ELSE IF e.name = "MongooseServerSelectionError" THEN "Timeout"
    ELSE "Unknown"

\* C10: every failed attempt is classified as exactly one of the five
\* classes: ENOTFOUND as DNSResolution, ECONNREFUSED as ConnectionRefused, a
\* server (authentication) error as AuthenticationFailure, a server-selection
\* error as Timeout, and every other error as Unknown.
C10_FailureClassification ==
    outcome = "fail" =>
        (lastClass \in Classes /\ lastClass = ClaimedClass(lastError))

\* C11 as claimed: once an attempt has succeeded the attempt counter never
\* changes again.
C11_NoAttemptAfterSuccess ==
    [][everSucceeded => attempts' = attempts]_vars

\* C11: once an attempt has succeeded, no request starts another attempt
\* while the connection has not been lost: a later attempt starts only from
\* readyState 0, after the connection dropped.
C11_NoAttemptAfterSuccessUntilDrop ==
    /\ [][(everSucceeded /\ attempts' # attempts) =>
            (everDropped /\ readyState = 0)]_vars
    /\ []((everSucceeded /\ ~everDropped /\ ~everFailed) => attempts = 1)

C11_Witness ==
    /\ file = "index" /\ everSucceeded /\ everDropped /\ ~everFailed
    /\ attempts = 2 /\ outcome = "pending"
    /\ \E r \in Req : pc[r] = "done"

\* the connection state changes in this step
StateChanges == readyState' # readyState

\* a call or the startup starts an attempt in this step
StartsAttempt ==
    /\ readyState = 0 /\ readyState' = 2
    /\ attempts' = attempts + 1
    /\ \/ \E r \in Req : Called(r) /\ pc'[r] = "connecting"
       \/ startup = "idle" /\ startup' = "pending"

\* the attempt in flight succeeds in this step and its handle is cached
AttemptSucceeds ==
    /\ readyState = 2 /\ readyState' = 1
    /\ outcome = "pending" /\ outcome' = "ok"
    /\ file = "index" => cachedDb' = "conn"

\* the attempt in flight fails in this step and the cache is cleared
AttemptFails ==
    /\ readyState = 2 /\ readyState' = 0
    /\ outcome = "pending" /\ outcome' = "fail"
    /\ file = "index" => cachedDb' = "null"

\* the connection is lost or regained by the driver, not by the manager
DriverChanges ==
    /\ attempts' = attempts /\ outcome' = outcome /\ cachedDb' = cachedDb
    /\ pc' = pc
    /\ \/ readyState = 1 /\ readyState' = 0
       \/ readyState = 0 /\ readyState' = 1 /\ dropped

\* C13: the manager moves the connection state only from Disconnected or
\* Failed to Connecting when a call (or the startup) starts an attempt, from
\* Connecting to Connected when the attempt succeeds, caching the handle in
\* the same step, and from Connecting to Failed when it fails, clearing the
\* cache in the same step; every other change of the state is the driver
\* losing or regaining the connection.  A call made while the state is
\* Connected or Connecting leaves the state and the attempt counter alone.
C13_StateTransitions ==
    /\ [][StateChanges =>
            (StartsAttempt \/ AttemptSucceeds \/ AttemptFails
               \/ DriverChanges)]_vars
    /\ [][\A r \in Req : (Called(r) /\ readyState \in {1, 2}) =>
            (readyState' = readyState /\ attempts' = attempts)]_vars

C13_Witness ==
    /\ file = "index" /\ readyState = 1 /\ cachedDb = "conn"
    /\ everFailed /\ ~everDropped /\ attempts = 2

\* C16 as claimed: whenever the cached handle is non-empty the connection
\* state is Connected.
C16_CacheImpliesConnected ==
    cachedDb # "null" => readyState = 1

\* C16: the cache holds the handle of the latest successful attempt or
\* nothing; whenever it is non-empty an attempt has succeeded and no attempt
\* has failed since, and the state is Connected unless the connection has
\* dropped since the handle was cached.
C16_CacheImpliesConnectedUnlessDropped ==
    /\ cachedDb \in {"null", "conn"}
    /\ cachedDb # "null" =>
         /\ file = "index" /\ everSucceeded /\ outcome # "fail"
         /\ readyState # 1 => everDropped
         /\ ~everDropped => (readyState = 1 /\ outcome = "ok")

C16_Witness ==
    /\ cachedDb = "conn" /\ readyState = 0 /\ dropped
    /\ attempts = 1 /\ outcome = "ok"

\* connectDB returns without connecting in this step
ReturnsCached == downCalls' # downCalls /\ attempts' = attempts

\* C17: a call that finds the state Disconnected starts a new attempt whether
\* or not a handle is still cached from an earlier success, and connectDB
\* returns the cached handle only when the state is Connected.
C17_StaleCacheIsNotReused ==
    /\ [][\A r \in Req : (Called(r) /\ readyState = 0) =>
            /\ attempts' = attempts + 1 /\ readyState' = 2
            /\ pc'[r] = "connecting" /\ nextCalls'[r] = nextCalls[r]]_vars
    /\ [][ReturnsCached => (readyState = 1 /\ cachedDb # "null")]_vars

C17_Witness ==
    /\ cachedDb = "conn" /\ readyState = 2 /\ everDropped
    /\ \E r \in Req : pc[r] = "connecting"

\* C18: the cached handle changes only in the step that settles a connection
\* attempt, to the handle when the attempt succeeds and to empty when it
\* fails; a call that takes the Connected fast path or waits for the attempt
\* in flight, and every route handler, leave it unchanged.
C18_CacheWrittenOnlyBySettlement ==
    /\ [][cachedDb' # cachedDb =>
            /\ file = "index" /\ outcome = "pending"
            /\ \/ outcome' = "ok" /\ cachedDb' = "conn"
               \/ outcome' = "fail" /\ cachedDb' = "null"]_vars
    /\ [][\A r \in Req :
            (Called(r) \/ (pc'[r] # pc[r] /\ pc'[r] \in {"passed", "limited",
                                                          "done"}))
               => cachedDb' = cachedDb]_vars

C18_Witness ==
    /\ file = "index" /\ cachedDb = "null" /\ everSucceeded
    /\ outcome = "fail" /\ readyState = 0
    /\ \E r \in Req : pc[r] = "done" /\ r \notin onConnected

\* C19: the failure response of ensureDbConnected is the same fixed response
\* (status 500, one fixed body) for the initiating request and for every
\* waiter, whatever error the attempt failed with.
C19_OpaqueFailureResponse ==
    \A r \in Req : pc[r] = "failed" =>
        resp[r] = [status |-> 500, body |-> "Failed to connect to database",
                   dbConnected |-> "absent"]

C19_Witness ==
    /\ lastError.code = "ECONNREFUSED"
    /\ \E r1, r2 \in Req :
         /\ r1 \in onError /\ r2 \notin onError
         /\ pc[r1] = "failed" /\ pc[r2] = "failed"
         /\ resp[r1].status = 500 /\ resp[r2].status = 500

\* C20: for every request that passes through ensureDbConnected exactly one
\* of next() and the 500 response happens, exactly once, on every path; the
\* listeners a waiter leaves on the connection do nothing when 'connected'
\* or 'error' fires again later.
C20_ExactlyOneOutcome ==
    file = "index" =>
        \A r \in Req :
           /\ nextCalls[r] + sent[r] <= 1
           /\ pc[r] \in {"handler", "done", "failed"}
                 <=> nextCalls[r] + sent[r] = 1
           /\ pc[r] \in {"new", "limited", "passed", "waiting", "connecting"}
                 <=> nextCalls[r] + sent[r] = 0

C20_Witness ==
    /\ file = "index" /\ everDropped /\ ~dropped /\ readyState = 1
    /\ attempts = 1
    /\ \E r \in Req : r \in onConnected /\ pc[r] = "done" /\ nextCalls[r] = 1

\* the outcome events among the events logged for the latest attempt
OutcomeEvents == SelectSeq(trace, LAMBDA ev : ev \in {"connected", "error"})

Configured(v, d) == IF v # 0 THEN v ELSE d

\* C15 as stated: every attempt is made with the connect, server-selection
\* and socket timeouts of the configuration, and with the defaults
\* 5 s / 45 s / 10 s for the values the configuration does not set.
C15_TimeoutsFromConfiguration ==
    attempts > 0 =>
        /\ opts.serverSelection =
               Configured(env.serverSelection, ServerSelectionTimeoutMS)
        /\ opts.socket = Configured(env.socket, SocketTimeoutMS)
        /\ opts.connect = Configured(env.connect, ConnectTimeoutMS)

\* C15 amended: every attempt of src/unnamed/part_001 is made with the fixed
\* timeouts 5000 ms (server selection), 45000 ms (socket) and 10000 ms
\* (connect) whatever the configuration says; src/server.js passes no timeout
\* option at all; the options change only when a new attempt starts.
C15_TimeoutsAreFixed ==
    /\ [](attempts = 0 => opts = NoTimeouts)
    /\ []((attempts > 0 /\ file = "index") =>
            /\ opts.serverSelection = ServerSelectionTimeoutMS
            /\ opts.socket = SocketTimeoutMS
            /\ opts.connect = ConnectTimeoutMS)
    /\ []((attempts > 0 /\ file = "server") => opts = NoTimeouts)
    /\ [][opts' # opts => attempts' = attempts + 1]_vars

C15_Witness ==
    /\ file = "index" /\ env # NoTimeouts /\ attempts = 2 /\ outcome = "ok"
    /\ opts.serverSelection = ServerSelectionTimeoutMS
    /\ opts.serverSelection # env.serverSelection

\* an attempt is in flight, or a caller of ensureDbConnected is suspended
Suspended ==
    readyState = 2 \/ \E r \in Req : pc[r] \in {"waiting", "connecting"}

\* C12: under fairness of the connection attempt, the state does not stay
\* Connecting forever, and every caller of ensureDbConnected that was
\* suspended, as a waiter or as the initiator of the attempt, eventually
\* either proceeds to its handler or receives the failure response.
\* Whenever an attempt is in flight or a caller is suspended, a state follows
\* in which no attempt is in flight and no caller is suspended; and a
\* suspended caller leaves its suspension only towards its handler (next() is
\* called once more) or towards the failure response (one response is sent).
C12_NoCallerWaitsForever ==
    /\ Suspended ~> ~Suspended
    /\ [][\A r \in Req : Settled(r) =>
             \/ pc'[r] = "handler" /\ nextCalls'[r] = nextCalls[r] + 1
             \/ pc'[r] = "failed" /\ sent'[r] = sent[r] + 1]_vars

C12_Witness ==
    /\ file = "index" /\ ~main /\ attempts = 1 /\ outcome = "fail"
    /\ readyState = 0
    /\ \E r1, r2 \in Req :
         /\ r1 \in onError /\ pc[r1] = "failed"
         /\ r2 \notin onError /\ pc[r2] = "failed"
    /\ \E r \in Req : pc[r] = "passed"

\* C21: the limiters run before ensureDbConnected.  The step that rejects a
\* request changes neither the connection state, the cached handle nor the
\* number of attempts; a rejected request stays rejected with its 429, is
\* never handed to ensureDbConnected and registers no listener; and there
\* are never more attempts than requests the limiters let through (plus the
\* startup call).
C21_LimitersBeforeDb ==
    /\ [][\A r \in Req :
            (pc[r] # "limited" /\ pc'[r] = "limited") =>
                /\ pc[r] = "new"
                /\ UNCHANGED <<readyState, cachedDb, attempts, inflight>>]_vars
    /\ [][\A r \in Req : pc[r] = "limited" => pc'[r] = "limited"]_vars
    /\ [](\A r \in Req :
            pc[r] = "limited" =>
                /\ nextCalls[r] = 0 /\ sent[r] = 0
                /\ r \notin onConnected \cup onError
                /\ resp[r] = TooMany)
    /\ [](attempts <= Cardinality({r \in Req : pc[r] \notin {"new", "limited"}})
                       + (IF startup \in {"pending", "done"} THEN 1 ELSE 0))

C21_Witness ==
    /\ file = "index" /\ readyState = 2 /\ attempts = 1 /\ cachedDb = "null"
    /\ \E r1, r2, r3 \in Req :
         /\ pc[r1] = "limited" /\ route[r1] = "api"
         /\ pc[r2] = "connecting"
         /\ pc[r3] = "limited" /\ r3 > r2

\* request r takes a step of its own: ensureDbConnected is called for it, or
\* its route answers it
OwnStep(r) == Called(r) \/ (AtRoutes(r) /\ pc'[r] # pc[r])

\* C22 as stated: a request to the health endpoint is purely observational.
\* No step of a health request starts an attempt or changes the connection
\* state or the cached handle, no health request is ever suspended on the
\* connection, and every health request that was answered got the health
\* report, whatever the connection state was.
C22_HealthIsObservational ==
    /\ [][\A r \in Req :
            (route[r] = "health" /\ OwnStep(r)) =>
                UNCHANGED <<readyState, cachedDb, attempts>>]_vars
    /\ [](\A r \in Req :
            route[r] = "health" =>
                /\ pc[r] \notin {"waiting", "connecting", "failed"}
                /\ pc[r] = "done" => resp[r].body = "OK")

\* the requests suspended on the connection's events
Waiting == {r \in Req : pc[r] = "waiting"}

\* C23 as stated: the listeners of waiting requests do not accumulate.  A
\* request that is no longer waiting has no 'connected' and no 'error'
\* listener left on the connection, so the listeners number at most twice
\* the waiting requests.
C23_ListenersDoNotAccumulate ==
    /\ onConnected \subseteq Waiting
    /\ onError \subseteq Waiting
    /\ Cardinality(onConnected) + Cardinality(onError)
          <= 2 * Cardinality(Waiting)

\* C24 as stated: no diagnostic output depends on the value of a secret.
\* For two runs whose environments differ only in the value of MONGODB_URI
\* or of JWT_SECRET, connectDB, the environment check and the debug script
\* log the same text.
C24_LogsIndependentOfSecrets ==
    \A s \in Scripts : printed[s][1] = printed[s][2]

\* the request is a request to the diagnostic endpoint
Diagnostic(r) == route[r] = "test-db"

\* the answer lists the collections with success true
Lists(a) == a.body = "collections"

\* C25 as stated: /api/test-db lists the collections with a success result
\* only when the connection state is Connected, and in every other state it
\* answers with success false, lists nothing and leaves the connection
\* state alone.  A listing was made for a request that found the state
\* Connected; no step of a diagnostic request changes the connection state,
\* the cached handle or the number of attempts; and every diagnostic request
\* the limiters let through is answered by the handler itself.
C25_DiagnosticOnlyWhenConnected ==
    /\ [](\A r \in Req :
            (Diagnostic(r) /\ pc[r] = "done" /\ Lists(resp[r])) =>
                (seen[r].dbStatus = 1 /\ resp[r].dbConnected = "true"))
    /\ [][\A r \in Req :
            (Diagnostic(r) /\ OwnStep(r)) =>
                UNCHANGED <<readyState, cachedDb, attempts>>]_vars
    /\ [](\A r \in Req :
            Diagnostic(r) => pc[r] \notin {"waiting", "connecting", "failed"})

====
